---------------------------- MODULE Spec2Model ----------------------------
(***************************************************************************)
(* Model of scrape_sina_news.py: the paged crawl loop of                   *)
(* SinaNewsCrawler.run, the per-item extraction and keyword filter of      *)
(* process_news_item, the incremental JSON persistence of save_results     *)
(* and the final cleanup in main.                                          *)
(*                                                                         *)
(* Strings are sequences of one-character strings.  The output file is a   *)
(* sequence of tokens: every structural character written by the code      *)
(* ("[", "]", ",", newline, space) is one token of width one, and the      *)
(* text json.dump writes for one record object is one "obj" token.         *)
(***************************************************************************)
EXTENDS Integers, Sequences, FiniteSets, Bags, TLC

\* --------------------------------------------------------------- bounds
MaxPages == 2
MaxItems == 2
MaxCalls == 3
MaxBatch == 2
MaxStr   == 2

\* ---------------------------------------------------------------- state
VARIABLES
  keywords,       \* self.keywords: a list of strings
  max_pages,      \* self.max_pages
  results,        \* self.results: the in-memory batch
  hasFilename,    \* hasattr(self, 'filename')
  filename,       \* self.filename: the time stamp in the name (0: not set)
  fileExists,     \* os.path.exists(self.filename)
  fileContent,    \* the text of the output file, as tokens
  pc,             \* position of run()/main()
  current_page,   \* run's local current_page
  news_items,     \* scrape_page's news_items of the page being processed
  taskDone,       \* which process_news_item tasks of the page have finished
  exitStatus,     \* "running", "ok" (exit 0) or "error" (unhandled exception)
  \* history variables, read by the properties only
  processed,      \* number of pages for which scrape_page returned True
  clicks,         \* number of next-page clicks issued
  expected,       \* bag of the records the processed pages are due
  firstTimeout,   \* the first page's list-ready wait timed out
  noNextAt,       \* page after which a.next was missing (0: never)
  calls,          \* number of save_results calls that returned
  lastBatch,      \* the batch handed to the last save_results call
  batches,        \* concatenation of all batches handed to save_results
  batchLog        \* the non-empty batches written, one entry per write

vars == <<keywords, max_pages, results, hasFilename, filename, fileExists,
          fileContent,
          pc, current_page, news_items, taskDone, exitStatus,
          processed, clicks, expected, firstTimeout, noNextAt,
          calls, lastBatch, batches, batchLog>>

storeVars == <<hasFilename, filename, fileExists, fileContent>>
ctrlVars  == <<pc, current_page, news_items, taskDone, exitStatus>>
histVars  == <<processed, clicks, expected, firstTimeout, noNextAt>>
callVars  == <<calls, lastBatch, batches, batchLog>>

\* -------------------------------------------------------------- strings
Range(s) == {s[i] : i \in DOMAIN s}

IsSpace(c) == c = " "

RECURSIVE LStrip(_)
LStrip(s) == IF s # <<>> /\ IsSpace(Head(s)) THEN LStrip(Tail(s)) ELSE s

RECURSIVE RStrip(_)
RStrip(s) ==
  IF s # <<>> /\ IsSpace(s[Len(s)]) THEN RStrip(SubSeq(s, 1, Len(s) - 1)) ELSE s

\* str.strip()
Strip(s) == RStrip(LStrip(s))

\* Python's  kw in s  on strings: literal, case-sensitive substring
Contains(kw, s) ==
  \E i \in 0..(Len(s) - Len(kw)) : SubSeq(s, i + 1, i + Len(kw)) = kw

\* a filter that forgets the summary
KeywordFilter_TitleOnly(kws, title, summary) ==
  \/ kws = <<>>
  \/ \E k \in DOMAIN kws : Contains(kws[k], title)

\* the keyword test of process_news_item (line 41); the item is dropped when
\*   self.keywords and not any(kw in title or kw in summary for kw in ...)
KeywordFilter(kws, title, summary) ==
  \/ kws = <<>>
  \/ \E k \in DOMAIN kws : Contains(kws[k], title) \/ Contains(kws[k], summary)

\* -------------------------------------------------------------- records
\* the dict appended to self.results (lines 45-50)
NewsRecord(title, summary, url, page) ==
  [title |-> title, summary |-> summary, url |-> url, page |-> page]

\* ------------------------------------------------- the file, as tokens
Tok(c)    == [k |-> c]
ObjTok(r) == [k |-> "obj", obj |-> r]
NL == Tok("\n")
SP == Tok(" ")

\* the items of json.dump(list, f, indent=2): each on its own line, indented
\* by two spaces, separated by a comma and a newline
RECURSIVE DumpItems(_)
DumpItems(rs) ==
  IF rs = <<>> THEN <<>>
  ELSE <<SP, SP, ObjTok(Head(rs))>>
       \o (IF Tail(rs) = <<>> THEN <<>> ELSE <<Tok(","), NL>> \o DumpItems(Tail(rs)))

\* json.dump(self.results, f, ensure_ascii=False, indent=2)
JsonDump(rs) ==
  IF rs = <<>> THEN <<Tok("["), Tok("]")>>
  ELSE <<Tok("["), NL>> \o DumpItems(rs) \o <<NL, Tok("]")>>

\* width in characters of a token: an object's text is longer than two
Width(t) == IF t.k = "obj" THEN 3 ELSE 1

\* a truncation one character too far
TruncateTwo_OneMore(content) == SubSeq(content, 1, Len(content) - 3)

\* f.seek(f.tell() - 2); f.truncate()  (lines 155-157): the last two
\* characters go; cutting into an object's text leaves a broken object
TruncateTwo(content) ==
  LET n == Len(content) IN
  IF n >= 2 /\ Width(content[n]) = 1 /\ Width(content[n - 1]) = 1
    THEN SubSeq(content, 1, n - 2)
  ELSE IF n >= 1 /\ Width(content[n]) = 1
    THEN SubSeq(content, 1, n - 2) \o <<Tok("broken")>>
  ELSE IF n >= 1
    THEN SubSeq(content, 1, n - 1) \o <<Tok("broken")>>
  ELSE <<>>

\* a new-file branch that writes the batch as the document itself
WriteNew_Flat(rs) == JsonDump(rs)

\* the new-file branch (lines 149-151)
WriteNew(rs) == <<Tok("["), NL>> \o JsonDump(rs) \o <<NL, Tok("]")>>

\* an append branch that leaves a comma before the closing bracket
WriteAppend_CommaLast(content, rs) ==
  TruncateTwo(content) \o <<Tok(","), NL>> \o JsonDump(rs) \o <<Tok(","), NL, Tok("]")>>

\* the append branch (lines 155-162); mode 'a' writes at the end of the file
WriteAppend(content, rs) ==
  TruncateTwo(content) \o <<Tok(","), NL>> \o JsonDump(rs) \o <<NL, Tok("]")>>

\* a mode that always rewrites the file
OpenMode_AlwaysWrite(incremental, exists) == "w"

\* mode = 'a' if incremental and os.path.exists(self.filename) else 'w'
OpenMode(incremental, exists) == IF incremental /\ exists THEN "a" ELSE "w"

\* a save without the early return on an empty batch
save_results_NoEmptyReturn(st, incremental) ==
  LET mode   == OpenMode(incremental, st.fileExists)
      opened == IF mode = "w" THEN <<>> ELSE st.fileContent
      text   == IF mode = "w" \/ Len(opened) = 0
                  THEN WriteNew(st.results)
                  ELSE WriteAppend(opened, st.results)
  IN [results |-> <<>>, hasFilename |-> TRUE,
      fileExists |-> TRUE, fileContent |-> text]

\* a save that writes the batch and keeps it in memory
save_results_KeepBatch(st, incremental) ==
  IF st.results = <<>> THEN st
  ELSE
    LET text == IF ~st.fileExists \/ Len(st.fileContent) = 0
                  THEN WriteNew(st.results)
                  ELSE WriteAppend(st.fileContent, st.results)
    IN [results |-> st.results, hasFilename |-> TRUE,
        fileExists |-> TRUE, fileContent |-> text]

\* a save that returns before writing once the file name is chosen
save_results_NoWrite(st, incremental) ==
  IF st.results = <<>> THEN st
  ELSE [st EXCEPT !.results = <<>>, !.hasFilename = TRUE]

\* save_results (lines 134-167) on the store state
\*   st = [results, hasFilename, fileExists, fileContent]
save_results(st, incremental) ==
  IF st.results = <<>> THEN st
  ELSE
    LET mode   == OpenMode(incremental, st.fileExists)
        \* open(..., 'w') empties the file, open(..., 'a') keeps it
        opened == IF mode = "w" THEN <<>> ELSE st.fileContent
        text   == IF mode = "w" \/ Len(opened) = 0
                    THEN WriteNew(st.results)
                    ELSE WriteAppend(opened, st.results)
    IN [results |-> <<>>, hasFilename |-> TRUE,
        fileExists |-> TRUE, fileContent |-> text]

\* content.replace(',\n]', '\n]')  (line 185): left to right, not overlapping
RECURSIVE ReplaceCommaClose(_)
ReplaceCommaClose(s) ==
  IF Len(s) >= 3 /\ s[1] = Tok(",") /\ s[2] = NL /\ s[3] = Tok("]")
    THEN <<NL, Tok("]")>> \o ReplaceCommaClose(SubSeq(s, 4, Len(s)))
  ELSE IF s = <<>> THEN <<>>
  ELSE <<Head(s)>> \o ReplaceCommaClose(Tail(s))

\* ------------------------------------------------------- reading JSON
\* JSON values: an array of values or a record object
Arr(items) == [kind |-> "arr", items |-> items]
Obj(r)     == [kind |-> "obj", obj |-> r]

IsWhite(t) == t.k \in {" ", "\n"}

\* a value v is complete: it is the document, or the next element of the
\* innermost open array
Completed(stack, v) ==
  IF stack = <<>>
    THEN [stack |-> <<>>, mode |-> "end", val |-> v]
    ELSE [stack |-> [stack EXCEPT ![Len(stack)] = Append(@, v)],
          mode |-> "sep", val |-> Arr(<<>>)]

\* one token of the grammar  value ::= obj | "[" "]" | "[" value ("," value)* "]"
\* mode: "val" a value is due; "first" a value or "]" is due (just after "[");
\*       "sep" a "," or "]" is due; "end" the document is complete;
\*       "bad" the text is not JSON
ParseStep(p, t) ==
  LET bad == [stack |-> <<>>, mode |-> "bad", val |-> Arr(<<>>)] IN
  IF p.mode = "bad" THEN p
  ELSE IF IsWhite(t) THEN p
  ELSE IF t.k = "obj" THEN
    IF p.mode \in {"val", "first"} THEN Completed(p.stack, Obj(t.obj)) ELSE bad
  ELSE IF t.k = "[" THEN
    IF p.mode \in {"val", "first"}
      THEN [stack |-> Append(p.stack, <<>>), mode |-> "first", val |-> p.val]
      ELSE bad
  ELSE IF t.k = "]" THEN
    IF p.mode \in {"first", "sep"} /\ p.stack # <<>>
      THEN Completed(SubSeq(p.stack, 1, Len(p.stack) - 1),
                     Arr(p.stack[Len(p.stack)]))
      ELSE bad
  ELSE IF t.k = "," THEN
    IF p.mode = "sep" THEN [p EXCEPT !.mode = "val"] ELSE bad
  ELSE bad

RECURSIVE ParseFrom(_, _, _)
ParseFrom(doc, i, p) ==
  IF i > Len(doc) THEN p ELSE ParseFrom(doc, i + 1, ParseStep(p, doc[i]))

\* the document read as JSON text, as a consumer of the file reads it:
\* [ok, val]
ParseJSON(doc) ==
  LET p == ParseFrom(doc, 1, [stack |-> <<>>, mode |-> "val", val |-> Arr(<<>>)])
  IN [ok |-> p.mode = "end", val |-> p.val]

\* a flat array of record objects
IsFlat(v) == v.kind = "arr" /\ \A i \in DOMAIN v.items : v.items[i].kind = "obj"

\* the records of a flat array, in order
FlatRecords(v) == [i \in DOMAIN v.items |-> v.items[i].obj]

\* all record objects of a value, at any depth, in document order
RECURSIVE Concat(_)
Concat(ss) == IF ss = <<>> THEN <<>> ELSE Head(ss) \o Concat(Tail(ss))

RECURSIVE AllRecords(_)
AllRecords(v) ==
  IF v.kind = "obj" THEN <<v.obj>>
  ELSE Concat([i \in DOMAIN v.items |-> AllRecords(v.items[i])])

\* multiset of the elements of a sequence
BagOf(s) == [x \in Range(s) |-> Cardinality({i \in DOMAIN s : s[i] = x})]

\* ------------------------------------------------------ page elements
\* One <li> of the list, as process_news_item sees it:
\*   a       item.query_selector('a') found an element
\*   atext   its text_content(); atextNone: text_content() returned None
\*   p, ptext, ptextNone   the same for item.query_selector('p')
\*   href    the anchor's href; hrefNone: get_attribute returned None
\*   raises  "no", "extract" (an await of lines 24-36 raises) or
\*           "print" (the print of line 51 raises, after the append)
Element(a, atext, atextNone, p, ptext, ptextNone, href, hrefNone, raises) ==
  [a |-> a, atext |-> atext, atextNone |-> atextNone,
   p |-> p, ptext |-> ptext, ptextNone |-> ptextNone,
   href |-> href, hrefNone |-> hrefNone, raises |-> raises]

\* title = title.strip() if title else ""            (lines 27-28)
ItemTitle(item) ==
  IF item.atextNone \/ item.atext = <<>> THEN <<>> ELSE Strip(item.atext)

\* summary = await summary_elem.text_content() if summary_elem else ""
\* summary = summary.strip() if summary else ""       (lines 31-33)
ItemSummary(item) ==
  IF ~item.p \/ item.ptextNone \/ item.ptext = <<>> THEN <<>> ELSE Strip(item.ptext)

\* a link test that lets every item through
HasLink_Always(item) == TRUE

\* if not link: return                                (lines 36-38)
HasLink(item) == ~item.hrefNone /\ item.href # <<>>

\* an extraction whose errors do not stop the append
Appends_DespiteError(item, kws) ==
  /\ item.a
  /\ HasLink(item)
  /\ KeywordFilter(kws, ItemTitle(item), ItemSummary(item))

\* whether process_news_item reaches self.results.append (line 45)
Appends(item, kws) ==
  /\ item.raises # "extract"
  /\ item.a
  /\ HasLink(item)
  /\ KeywordFilter(kws, ItemTitle(item), ItemSummary(item))

\* a task that writes back the batch it read at its start, losing what the
\* other tasks appended meanwhile
process_news_item_Overwrite(res, item, page_num, kws) ==
  IF Appends(item, kws)
    THEN <<NewsRecord(ItemTitle(item), ItemSummary(item), item.href, page_num)>>
    ELSE res

\* process_news_item (lines 20-54): the new self.results
process_news_item(res, item, page_num, kws) ==
  IF Appends(item, kws)
    THEN Append(res, NewsRecord(ItemTitle(item), ItemSummary(item), item.href, page_num))
    ELSE res

\* the records a page is due: one per item whose extraction reaches the
\* filter with a link and passes it, in item order
RECURSIVE PageRecords(_, _, _)
PageRecords(items, page_num, kws) ==
  IF items = <<>> THEN <<>>
  ELSE LET it == Head(items) IN
       (IF /\ it.raises # "extract" /\ it.a /\ HasLink(it)
           /\ KeywordFilter(kws, ItemTitle(it), ItemSummary(it))
          THEN <<NewsRecord(ItemTitle(it), ItemSummary(it), it.href, page_num)>>
          ELSE <<>>)
       \o PageRecords(Tail(items), page_num, kws)

\* ------------------------------------------------------------- inputs
SeqsUpTo(S, n) == UNION {[1..k -> S] : k \in 0..n}

\* the list elements the crawl meets: a title to be stripped, an empty
\* title with a summary, a title in another case, a missing href, an
\* extraction error
ItemPool ==
  { Element(TRUE, <<" ", "m">>, FALSE, FALSE, <<>>, FALSE, <<"u">>, FALSE, "no"),
    Element(TRUE, <<>>, FALSE, TRUE, <<"m">>, FALSE, <<"u">>, FALSE, "no"),
    Element(TRUE, <<"M">>, FALSE, FALSE, <<>>, FALSE, <<"u">>, FALSE, "no"),
    Element(TRUE, <<"m">>, FALSE, FALSE, <<>>, FALSE, <<>>, TRUE, "no"),
    Element(TRUE, <<"m">>, FALSE, FALSE, <<>>, FALSE, <<"u">>, FALSE, "extract") }

\* the keyword lists of a run: none, or the one keyword "m"
KeywordChoices == { <<>>, << <<"m">> >> }

\* ------------------------------------------------------------ the store
Store == [results |-> results, hasFilename |-> hasFilename,
          fileExists |-> fileExists, fileContent |-> fileContent]

SetStore(st) ==
  /\ results' = st.results
  /\ hasFilename' = st.hasFilename
  /\ fileExists' = st.fileExists
  /\ fileContent' = st.fileContent

\* datetime.now() of line 141 as a logical clock: every save, page and click
\* moves it on, so a name chosen later differs from one chosen earlier
Timestamp == calls + processed + clicks + 1

\* a save that names the file anew at every call
ChooseFilename_Always(has, name, now) == now

\* save_results, lines 140-142: the name is set once, on the first call that
\* gets past the empty-batch return
ChooseFilename(has, name, now) == IF has THEN name ELSE now

\* the cleanup of main (lines 181-186)
finalize(st) ==
  IF st.hasFilename
    THEN [st EXCEPT !.fileContent = ReplaceCommaClose(st.fileContent)]
    ELSE st

\* ------------------------------------------------------- the crawl run
\* SinaNewsCrawler.__init__ (lines 13-18) and the start of main
Init ==
  /\ keywords \in KeywordChoices
  /\ max_pages \in (-1)..MaxPages
  /\ results = <<>>
  /\ hasFilename = FALSE
  /\ filename = 0
  /\ fileExists = FALSE
  /\ fileContent = <<>>
  /\ pc = "init"
  /\ current_page = 0
  /\ news_items = <<>>
  /\ taskDone = <<>>
  /\ exitStatus = "running"
  /\ processed = 0
  /\ clicks = 0
  /\ expected = EmptyBag
  /\ firstTimeout = FALSE
  /\ noNextAt = 0
  /\ calls = 0
  /\ lastBatch = <<>>
  /\ batches = <<>>
  /\ batchLog = <<>>

\* run, lines 80-98: goto, wait_for_load_state, wait_for_selector; a failure
\* is not caught and ends the program with a traceback
InitialLoad ==
  /\ pc = "init"
  /\ \E ok \in BOOLEAN :
       IF ok THEN /\ pc' = "loop"
                  /\ current_page' = 1
                  /\ exitStatus' = exitStatus
             ELSE /\ pc' = "failed"
                  /\ exitStatus' = "error"
                  /\ current_page' = current_page
  /\ UNCHANGED <<keywords, max_pages, results, storeVars, news_items, taskDone,
                 histVars, callVars>>

\* a loop test that lets one page too many through
LoopTest_OneMore(page, limit) == page <= limit + 1

\* run, line 99: while current_page <= self.max_pages
LoopTest(page, limit) == page <= limit

\* run, line 99: the loop test fails
LoopExit ==
  /\ pc = "loop"
  /\ ~LoopTest(current_page, max_pages)
  /\ pc' = "done"
  /\ UNCHANGED <<keywords, max_pages, results, storeVars, current_page,
                 news_items, taskDone, exitStatus, histVars, callVars>>

\* a scrape_page without its generic handler: only the timeout is caught
AfterScrape_TimeoutOnly(outcome) ==
  IF outcome = "ok" THEN "gather"
  ELSE IF outcome = "timeout" THEN "done" ELSE "failed"

\* scrape_page, lines 70-76 and run, lines 102-103: True lets the items be
\* processed; a timeout or any other exception returns False and run breaks
AfterScrape(outcome) == IF outcome = "ok" THEN "gather" ELSE "done"

\* run, lines 99-103 and scrape_page, lines 58-68 and 71-76: the list-ready
\* wait and query_selector_all; on success one task per item is created
scrape_page ==
  /\ pc = "loop"
  /\ LoopTest(current_page, max_pages)
  /\ \E outcome \in {"ok", "timeout", "error"} :
       IF outcome = "ok"
         THEN /\ \E items \in SeqsUpTo(ItemPool, MaxItems) :
                   /\ news_items' = items
                   /\ taskDone' = [i \in DOMAIN items |-> FALSE]
              /\ pc' = AfterScrape(outcome)
              /\ firstTimeout' = firstTimeout
         ELSE /\ pc' = AfterScrape(outcome)
              /\ firstTimeout' = (firstTimeout \/ (current_page = 1 /\ outcome = "timeout"))
              /\ UNCHANGED <<news_items, taskDone>>
  /\ UNCHANGED <<keywords, max_pages, results, storeVars, current_page,
                 exitStatus, processed, clicks, expected, noNextAt, callVars>>

\* one task of asyncio.gather runs process_news_item to its end; the tasks
\* of a page finish in any order
ProcessNewsItem(i) ==
  /\ pc = "gather"
  /\ i \in DOMAIN news_items
  /\ ~taskDone[i]
  /\ results' = process_news_item(results, news_items[i], current_page, keywords)
  /\ taskDone' = [taskDone EXCEPT ![i] = TRUE]
  /\ UNCHANGED <<keywords, max_pages, storeVars, pc, current_page, news_items,
                 exitStatus, histVars, callVars>>

\* a run that asks for the next page whatever the page limit
AfterSave_AlwaysPaginate(page, limit) == "paginate"

\* run, line 113 and else-branch 129-130: after the save, another page is
\* requested only below the page limit
AfterSave(page, limit) == IF page < limit THEN "paginate" ELSE "done"

\* a run that stops at the first page without a match
NextAfterPage_StopOnEmpty(batch, page, limit) ==
  IF batch = <<>> THEN "done" ELSE AfterSave(page, limit)

\* run, lines 105-113: the batch is saved or, when empty, only reported; the
\* pagination that follows (line 113) does not look at the batch
NextAfterPage(batch, page, limit) == AfterSave(page, limit)

\* scrape_page returns True (lines 68-70); run saves the batch when it is
\* not empty (lines 105-110) and decides whether to paginate (113, 129-130).
\* save_results opens the file outside any try block (line 146): when the
\* open raises, the exception leaves run and ends the program with the file
\* name chosen, the batch still in memory and the file untouched.
PersistPage ==
  /\ pc = "gather"
  /\ \A i \in DOMAIN taskDone : taskDone[i]
  /\ processed' = processed + 1
  /\ expected' = expected (+) BagOf(PageRecords(news_items, current_page, keywords))
  /\ \E opened \in BOOLEAN :
       IF results # <<>> /\ ~opened
         THEN /\ hasFilename' = TRUE
              /\ filename' = ChooseFilename(hasFilename, filename, Timestamp)
              /\ pc' = "failed"
              /\ exitStatus' = "error"
              /\ UNCHANGED <<results, fileExists, fileContent, callVars,
                             news_items, taskDone>>
         ELSE /\ opened
              /\ IF results # <<>>
                   THEN /\ SetStore(save_results(Store, TRUE))
                        /\ filename' = ChooseFilename(hasFilename, filename, Timestamp)
                        /\ calls' = calls + 1
                        /\ lastBatch' = results
                        /\ batches' = batches \o results
                        /\ batchLog' = Append(batchLog, results)
                   ELSE UNCHANGED <<results, storeVars, callVars>>
              /\ pc' = NextAfterPage(results, current_page, max_pages)
              /\ exitStatus' = exitStatus
              \* scrape_page's locals end with the call
              /\ news_items' = <<>>
              /\ taskDone' = <<>>
  /\ UNCHANGED <<keywords, max_pages, current_page, clicks, firstTimeout,
                 noNextAt>>

\* a pagination that clicks without looking at the query's result
AfterQuery_AlwaysClick(outcome) == "click"

\* run, lines 115-116 and 120-128: what follows page.query_selector('a.next')
AfterQuery(outcome) == IF outcome = "found" THEN "click" ELSE "done"

\* run, lines 114-116, 120-128: look for the next-page link
Paginate ==
  /\ pc = "paginate"
  /\ \E outcome \in {"found", "none", "error"} :
       /\ pc' = AfterQuery(outcome)
       /\ noNextAt' = IF outcome = "none" THEN current_page ELSE noNextAt
  /\ UNCHANGED <<keywords, max_pages, results, storeVars, current_page,
                 news_items, taskDone, exitStatus, processed, clicks, expected,
                 firstTimeout, callVars>>

\* a pagination whose handlers are missing: a failed click ends the program
AfterClick_Uncaught(outcome) == IF outcome = "ok" THEN "loop" ELSE "failed"

\* run, lines 117-119 and 123-128: after the click and the load wait the
\* loop goes on; a timeout or any other exception breaks out of it
AfterClick(outcome) == IF outcome = "ok" THEN "loop" ELSE "done"

\* run, lines 117-119, 123-128: click and wait for the load
ClickNext ==
  /\ pc = "click"
  /\ clicks' = clicks + 1
  /\ \E outcome \in {"ok", "timeout", "error"} :
       IF outcome = "ok"
         THEN /\ current_page' = current_page + 1
              /\ pc' = AfterClick(outcome)
         ELSE /\ current_page' = current_page
              /\ pc' = AfterClick(outcome)
  /\ UNCHANGED <<keywords, max_pages, results, storeVars, news_items, taskDone,
                 exitStatus, processed, expected, firstTimeout, noNextAt, callVars>>

\* run, line 132 and main, lines 178-186: the browser is closed, the file is
\* cleaned up when one was written, and the program exits with status 0
Finalize ==
  /\ pc = "done"
  /\ SetStore(finalize(Store))
  /\ filename' = filename
  /\ pc' = "exit"
  /\ exitStatus' = "ok"
  /\ UNCHANGED <<keywords, max_pages, current_page, news_items, taskDone,
                 histVars, callVars>>

Next ==
  \/ InitialLoad
  \/ LoopExit
  \/ scrape_page
  \/ \E i \in 1..MaxItems : ProcessNewsItem(i)
  \/ PersistPage
  \/ Paginate
  \/ ClickNext
  \/ Finalize

Spec == Init /\ [][Next]_vars

\* ------------------------------------------- the store, driven directly
\* The store's two operations called in any sequence with any batches, the
\* empty one included: save_results(incremental=True) with self.results set
\* to the batch, then the cleanup of main.
StoreRecords ==
  { NewsRecord(<<"m">>, <<>>, <<"u">>, 1),
    NewsRecord(<<"x">>, <<"m">>, <<"v">>, 2) }

InitStore ==
  /\ keywords = <<>>
  /\ max_pages = 0
  /\ results = <<>>
  /\ hasFilename = FALSE
  /\ filename = 0
  /\ fileExists = FALSE
  /\ fileContent = <<>>
  /\ pc = "store"
  /\ current_page = 0
  /\ news_items = <<>>
  /\ taskDone = <<>>
  /\ exitStatus = "running"
  /\ processed = 0
  /\ clicks = 0
  /\ expected = EmptyBag
  /\ firstTimeout = FALSE
  /\ noNextAt = 0
  /\ calls = 0
  /\ lastBatch = <<>>
  /\ batches = <<>>
  /\ batchLog = <<>>

\* save_results(incremental=True) with self.results = batch
AppendBatch(batch) ==
  /\ pc = "store"
  /\ calls < MaxCalls
  /\ SetStore(save_results([Store EXCEPT !.results = batch], TRUE))
  /\ filename' = IF batch # <<>>
                   THEN ChooseFilename(hasFilename, filename, Timestamp)
                   ELSE filename
  /\ calls' = calls + 1
  /\ lastBatch' = batch
  /\ batches' = batches \o batch
  /\ batchLog' = IF batch # <<>> THEN Append(batchLog, batch) ELSE batchLog
  /\ UNCHANGED <<keywords, max_pages, ctrlVars, histVars>>

\* the cleanup of main at the end of the run
StoreFinalize ==
  /\ pc = "store"
  /\ calls >= 1
  /\ SetStore(finalize(Store))
  /\ filename' = filename
  /\ pc' = "finalized"
  /\ UNCHANGED <<keywords, max_pages, current_page, news_items, taskDone,
                 exitStatus, histVars, callVars>>

NextStore ==
  \/ \E batch \in SeqsUpTo(StoreRecords, MaxBatch) : AppendBatch(batch)
  \/ StoreFinalize

SpecStore == InitStore /\ [][NextStore]_vars

\* ------------------------------------------- one page, every task order
\* The tasks of one page run by asyncio.gather (scrape_page, lines 66-68)
\* and the save that follows, for pages whose items may also lack the
\* anchor or raise in the progress print after the append (line 51).
GatherPool ==
  ItemPool \cup
  { Element(TRUE, <<"m">>, FALSE, FALSE, <<>>, FALSE, <<"u">>, FALSE, "print"),
    Element(FALSE, <<>>, FALSE, FALSE, <<>>, FALSE, <<>>, FALSE, "no") }

InitGather ==
  /\ keywords \in KeywordChoices
  /\ max_pages = MaxPages
  /\ results = <<>>
  /\ hasFilename = FALSE
  /\ filename = 0
  /\ fileExists = FALSE
  /\ fileContent = <<>>
  /\ pc = "gather"
  /\ current_page = 1
  /\ news_items \in SeqsUpTo(GatherPool, MaxItems)
  /\ taskDone = [i \in DOMAIN news_items |-> FALSE]
  /\ exitStatus = "running"
  /\ processed = 0
  /\ clicks = 0
  /\ expected = EmptyBag
  /\ firstTimeout = FALSE
  /\ noNextAt = 0
  /\ calls = 0
  /\ lastBatch = <<>>
  /\ batches = <<>>
  /\ batchLog = <<>>

NextGather ==
  \/ \E i \in 1..MaxItems : ProcessNewsItem(i)
  \/ PersistPage

SpecGather == InitGather /\ [][NextGather]_vars

\* ------------------------------------------- one item, every small input
\* process_news_item on a page of one element, for every element and
\* keyword list built from strings of at most MaxStr characters.
Alphabet == {"m", "M", " "}
Strings == SeqsUpTo(Alphabet, MaxStr)

AllElements ==
  { Element(FALSE, <<>>, FALSE, FALSE, <<>>, FALSE, <<>>, FALSE, "no") }
  \cup
  { Element(TRUE, t[1], t[2], s[1], s[2], s[3], h[1], h[2], r) :
      t \in ({<<x, FALSE>> : x \in Strings} \cup {<< <<>>, TRUE >>}),
      s \in ({<<TRUE, x, FALSE>> : x \in Strings}
             \cup {<<TRUE, <<>>, TRUE>>, <<FALSE, <<>>, FALSE>>}),
      h \in {<< <<"u">>, FALSE >>, << <<>>, FALSE >>, << <<>>, TRUE >>},
      r \in {"no", "extract", "print"} }

AllKeywordLists ==
  SeqsUpTo(SeqsUpTo({"m", "M"}, MaxStr), 1)
  \cup { << <<"M">>, <<"m">> >>, << <<" ">> >>, << <<"m", " ">> >> }

InitMatch ==
  /\ keywords \in AllKeywordLists
  /\ max_pages = 1
  /\ results = <<>>
  /\ hasFilename = FALSE
  /\ filename = 0
  /\ fileExists = FALSE
  /\ fileContent = <<>>
  /\ pc = "gather"
  /\ current_page = 1
  /\ \E e \in AllElements : news_items = <<e>>
  /\ taskDone = <<FALSE>>
  /\ exitStatus = "running"
  /\ processed = 0
  /\ clicks = 0
  /\ expected = EmptyBag
  /\ firstTimeout = FALSE
  /\ noNextAt = 0
  /\ calls = 0
  /\ lastBatch = <<>>
  /\ batches = <<>>
  /\ batchLog = <<>>

NextMatch == \E i \in 1..1 : ProcessNewsItem(i)

SpecMatch == InitMatch /\ [][NextMatch]_vars

\* ------------------------------------------------------------ properties
\* the document as a reader of the file sees it
Doc == ParseJSON(fileContent)

\* the document holds exactly the given bag of records, at whatever depth;
\* with no document the bag is empty
DocHolds(bag) ==
  IF fileExists THEN Doc.ok /\ BagOf(AllRecords(Doc.val)) = bag
  ELSE bag = EmptyBag

\* some contiguous slice of s equals k
IsSubstring(k, s) ==
  \E a \in 0..Len(s) : \E b \in a..Len(s) : SubSeq(s, a + 1, b) = k

\* the filter rule as the specification states it
Matches(K, title, summary) ==
  \/ K = <<>>
  \/ \E k \in Range(K) : IsSubstring(k, title) \/ IsSubstring(k, summary)

\* C1 as stated: after any sequence of appendBatch calls followed by
\* finalize, the document parses as a flat JSON array of record objects
\* holding the records of all batches, in call order and batch order.
C1_FlatAfterFinalize ==
  (pc = "finalized" /\ fileExists) =>
    /\ Doc.ok
    /\ IsFlat(Doc.val)
    /\ FlatRecords(Doc.val) = batches

\* C2 as stated: one non-empty batch, appended and then finalized, gives a
\* document that parses as the flat array of that batch, with no extra
\* nesting level.
C2_SingleBatchFlat ==
  (pc = "finalized" /\ calls = 1 /\ lastBatch # <<>>) =>
    /\ Doc.ok
    /\ Doc.val = Arr([i \in DOMAIN lastBatch |-> Obj(lastBatch[i])])

\* C6: after every completed appendBatch the file is well-formed JSON ending
\* in the close-bracket, and an append takes away only the terminator
\* (newline and close-bracket) written last: all the text before it stays.
C6_Terminated ==
  fileExists =>
    /\ Doc.ok
    /\ Len(fileContent) >= 2
    /\ fileContent[Len(fileContent)] = Tok("]")
    /\ fileContent[Len(fileContent) - 1] = NL

C6_AppendKeeps ==
  (fileExists /\ fileContent' # fileContent) =>
    /\ Len(fileContent') > Len(fileContent)
    /\ SubSeq(fileContent', 1, Len(fileContent) - 2)
         = SubSeq(fileContent, 1, Len(fileContent) - 2)
    /\ fileContent'[Len(fileContent) - 1] = Tok(",")

C6_WellFormedBetweenWrites == []C6_Terminated /\ [][C6_AppendKeeps]_vars

\* C6 witness: a second non-empty batch has been appended to the document
C6_Witness ==
  /\ pc = "store"
  /\ lastBatch # <<>>
  /\ Len(batches) > Len(lastBatch)
  /\ fileExists

\* C8: save_results with an empty batch changes neither the document's
\* content nor its existence nor the chosen file name, and creates no file.
C8_EmptyBatchNoOp ==
  [][(calls' = calls + 1 /\ lastBatch' = <<>>) =>
       /\ UNCHANGED <<hasFilename, fileExists, fileContent>>
       /\ results' = <<>>]_vars

\* C8 witness: two empty batches in a row after a document was written
C8_Witness ==
  /\ pc = "store"
  /\ calls = 3
  /\ lastBatch = <<>>
  /\ Len(batches) = 1
  /\ fileExists

\* C3 as stated: a candidate item becomes a record of the page's batch if
\* and only if the keyword list is empty or some keyword is a literal,
\* case-sensitive substring of its title or of its summary.
C3_MatchIff ==
  LET it == news_items[1] IN
  (pc = "gather" /\ taskDone = <<TRUE>> /\ it.a /\ it.raises = "no") =>
    ((results # <<>>) <=> Matches(keywords, ItemTitle(it), ItemSummary(it)))

\* C3 amended: an item whose extraction raises no error becomes a record
\* (carrying its stripped title and summary, its link and the page number)
\* if and only if it has an anchor and a non-empty link and the keyword list
\* is empty or some keyword is a substring of its title or of its summary.
C3_MatchIffWithLink ==
  LET it == news_items[1] IN
  (pc = "gather" /\ taskDone = <<TRUE>> /\ it.raises # "extract") =>
    IF /\ it.a /\ ~it.hrefNone /\ it.href # <<>>
       /\ Matches(keywords, ItemTitle(it), ItemSummary(it))
      THEN results = <<NewsRecord(ItemTitle(it), ItemSummary(it), it.href, current_page)>>
      ELSE results = <<>>

\* C3 witness: an item kept for its summary alone, under a non-empty list
C3_Witness ==
  /\ pc = "gather"
  /\ taskDone = <<TRUE>>
  /\ keywords # <<>>
  /\ results # <<>>
  /\ ~\E k \in Range(keywords) : IsSubstring(k, results[1].title)

\* C4: when the run has ended, the document holds exactly the records due
\* to the pages that were processed, each tagged with its page, and nothing
\* else; without any such record there is no document.
C4_FinalDocument == pc = "exit" => DocHolds(expected)

\* C4 witness: two pages processed, the first with a match, the second
\* with an item and no match
C4_Witness ==
  /\ pc = "exit"
  /\ processed = 2
  /\ expected # EmptyBag
  /\ \A r \in DOMAIN expected : r.page = 1
  /\ calls = 1

\* C5: whenever the next page is about to be requested, every task of the
\* current page has ended, its batch has left memory and the document holds
\* the records of all pages processed so far.
C5_PersistBeforeNextPage ==
  (pc \in {"paginate", "click"} \/ (pc = "loop" /\ current_page > 1)) =>
    /\ results = <<>>
    /\ news_items = <<>>
    /\ processed = IF pc = "loop" THEN current_page - 1 ELSE current_page
    /\ clicks = processed - (IF pc = "loop" THEN 0 ELSE 1)
    /\ DocHolds(expected)

\* C5 witness: about to click for page 2 with page 1's batch on disk
C5_Witness ==
  /\ pc = "click"
  /\ current_page = 1
  /\ fileExists
  /\ expected # EmptyBag

\* the records in memory or written to the file
RecordsSeen ==
  Range(results) \cup {t.obj : t \in {u \in Range(fileContent) : u.k = "obj"}}

\* C7 as stated: every record of a batch or of the document has a non-empty
\* title, a non-empty url and page >= 1, and passed the keyword filter.
C7_RecordInvariants ==
  \A r \in RecordsSeen :
    /\ r.title # <<>>
    /\ r.url # <<>>
    /\ r.page >= 1
    /\ Matches(keywords, r.title, r.summary)

\* C7 amended: every record of a batch or of the document has a non-empty
\* url and page >= 1 and passed the keyword filter; its title may be empty.
C7_RecordInvariantsNoTitle ==
  \A r \in RecordsSeen :
    /\ r.url # <<>>
    /\ r.page >= 1
    /\ Matches(keywords, r.title, r.summary)

\* C7 witness: a record with an empty title, kept for its summary, is in
\* the document
C7_Witness ==
  /\ keywords # <<>>
  /\ fileExists
  /\ \E r \in RecordsSeen : r.title = <<>> /\ r.page = 2

\* C9: with max_pages = 0, or when the first page's list-ready wait times
\* out, the run ends with no page processed, no document and no file name,
\* the cleanup changes nothing and the exit status is success.
C9_ZeroPages ==
  /\ (max_pages = 0 /\ pc \notin {"init", "failed"}) =>
       pc \in {"loop", "done", "exit"}
  /\ ((max_pages = 0 \/ firstTimeout) /\ pc \notin {"init", "failed"}) =>
       /\ processed = 0
       /\ clicks = 0
       /\ results = <<>>
       /\ ~hasFilename
       /\ ~fileExists
       /\ fileContent = <<>>
       /\ exitStatus = IF pc = "exit" THEN "ok" ELSE "running"

\* C9 witness: a run with max_pages = 0 has exited
C9_Witness ==
  /\ pc = "exit"
  /\ max_pages = 0
  /\ exitStatus = "ok"

\* C10: once the next-page link was missing after page n < max_pages, the
\* run is over with pages 1..n in the document, and page n+1 is neither
\* requested nor processed.
C10_NoNextStops ==
  noNextAt > 0 =>
    /\ pc \in {"done", "exit"}
    /\ noNextAt < max_pages
    /\ current_page = noNextAt
    /\ processed = noNextAt
    /\ clicks = noNextAt - 1
    /\ news_items = <<>>
    /\ results = <<>>
    /\ DocHolds(expected)

\* C10 witness: the link was missing after page 1 of a run with a larger
\* limit, and the run ended with page 1's match in the document
C10_Witness ==
  /\ noNextAt = 1
  /\ max_pages > 1
  /\ pc = "exit"
  /\ fileExists


\* one step of the run from a position where a page is fetched: the loop
\* head (list-ready wait), the next-page query or the click and load wait
C11_Absorbed ==
  pc \in {"loop", "paginate", "click"} =>
    /\ pc' \in {"loop", "gather", "paginate", "click", "done"}
    /\ exitStatus' = "running"
    /\ pc' = "done" =>
         UNCHANGED <<results, hasFilename, filename, fileExists, fileContent>>

\* C11: every fetch failure after the initial load (the list-ready wait of
\* any page, the next-page query, the click or its load wait failing by
\* timeout or by another error) takes the run to its normal end, never to
\* the aborted state, and the failing step leaves the document unchanged.
C11_FetchFailuresEndInDone == [][C11_Absorbed]_vars

\* C11 witness: the list-ready wait of page 2 failed with page 1's batch on
\* disk, and the run is at its normal end
C11_Witness ==
  /\ pc = "done"
  /\ current_page = 2
  /\ processed = 1
  /\ fileExists
  /\ exitStatus = "running"

C13_Pending == Cardinality({i \in DOMAIN taskDone : ~taskDone[i]})

\* the pages that may still follow the current one
C13_Remaining == IF current_page <= max_pages THEN max_pages - current_page ELSE 0

\* the steps one page can take at most, the move to the next page included
C13_PageSteps == MaxItems + 4

\* a natural number that every step of the run makes smaller
C13_Measure ==
  IF pc \in {"exit", "failed"} THEN 0
  ELSE IF pc = "done" THEN 1
  ELSE C13_Remaining * C13_PageSteps +
       (CASE pc = "click"    -> 2
          [] pc = "paginate" -> 3
          [] pc = "gather"   -> 4 + C13_Pending
          [] pc = "loop"     -> MaxItems + 5
          [] pc = "init"     -> MaxItems + 6)

\* the page counts of C13
C13_Bounds ==
  /\ C13_Measure >= 0
  /\ processed >= 0
  /\ processed <= (IF max_pages > 0 THEN max_pages ELSE 0)
  /\ pc \in {"gather", "paginate", "click"} =>
       (current_page >= 1 /\ current_page <= max_pages)
  /\ max_pages >= 1 => current_page <= max_pages
  /\ pc \in {"paginate", "click"} => current_page < max_pages
  /\ clicks <= (IF max_pages > 1 THEN max_pages - 1 ELSE 0)

\* C13: the crawl loop terminates (every step of the run lowers a natural
\* number) and processes between 0 and max_pages pages: no page with an
\* index above max_pages is fetched, and once the current page index has
\* reached max_pages the run goes to its end without asking for the
\* next-page link.
C13_LoopTerminates == []C13_Bounds /\ [][C13_Measure' < C13_Measure]_vars

\* C13 witness: a run over max_pages = 2 pages processed both, issued one
\* click and has exited
C13_Witness ==
  /\ pc = "exit"
  /\ max_pages = 2
  /\ processed = max_pages
  /\ current_page = max_pages
  /\ clicks = 1



\* the records of the finished tasks among the first n items of the page,
\* when an item whose processing raised in one of the ways in lost yields
\* none and every other item yields what it yields on its own
RECURSIVE C14_Batch(_, _)
C14_Batch(n, lost) ==
  IF n = 0 THEN <<>>
  ELSE LET it == news_items[n] IN
       C14_Batch(n - 1, lost) \o
       (IF /\ taskDone[n]
           /\ it.raises \notin lost
           /\ it.a
           /\ it.href # <<>> /\ ~it.hrefNone
           /\ Matches(keywords, ItemTitle(it), ItemSummary(it))
          THEN <<NewsRecord(ItemTitle(it), ItemSummary(it), it.href, current_page)>>
          ELSE <<>>)

\* a page with a raising item counts as processed and the run goes on: the
\* save of a non-empty batch is its only way to the aborted state
C14_PageGoesOn ==
  /\ pc \in {"gather", "paginate", "failed"}
  /\ pc = "paginate" =>
       /\ processed = 1
       /\ exitStatus = "running"
       /\ results = <<>>
       /\ DocHolds(expected)
  /\ pc = "failed" => results # <<>>

\* C14 as stated: an item whose processing raises contributes no record,
\* every sibling yields its record as without the error, the page counts
\* as processed and the run continues.
C14_ItemErrorSkipped ==
  /\ pc = "gather" =>
       BagOf(results) = BagOf(C14_Batch(Len(news_items), {"extract", "print"}))
  /\ C14_PageGoesOn

\* C14 amended: an item whose processing raises before the append
\* contributes no record, an item whose progress print raises after the
\* append keeps its record, every sibling yields its record as without the
\* error, the page counts as processed and the run continues.
C14_ExtractErrorSkipped ==
  /\ pc = "gather" =>
       BagOf(results) = BagOf(C14_Batch(Len(news_items), {"extract"}))
  /\ C14_PageGoesOn

\* C14 witness: all tasks of a page are over, one item raised during its
\* extraction, and the batch holds the record of its matching sibling
C14_Witness ==
  /\ pc = "gather"
  /\ Len(news_items) = 2
  /\ \A i \in DOMAIN taskDone : taskDone[i]
  /\ \E i, j \in DOMAIN news_items :
       /\ news_items[i].raises = "extract"
       /\ news_items[j].raises = "no"
  /\ Len(results) = 1



\* the records written to the file, in file order
WrittenRecords ==
  LET objs == SelectSeq(fileContent, LAMBDA t : t.k = "obj")
  IN [i \in DOMAIN objs |-> objs[i].obj]

\* while the tasks of a page run, the batch holds records of this page only,
\* at most one per finished task, the file holds records of earlier pages
\* only, and once all tasks are over the batch holds exactly one record per
\* matching item of the page
C15_WhileGathering ==
  pc = "gather" =>
    /\ DOMAIN taskDone = DOMAIN news_items
    /\ \A r \in Range(results) : r.page = current_page
    /\ \A r \in Range(WrittenRecords) : r.page < current_page
    /\ Len(results) <= Cardinality({i \in DOMAIN taskDone : taskDone[i]})
    /\ (\A i \in DOMAIN taskDone : taskDone[i]) =>
         BagOf(results) = BagOf(PageRecords(news_items, current_page, keywords))

\* a step that opens the file for writing is taken when all tasks of the
\* page are over, and it writes the batch of this page
C15_SaveStep ==
  (fileContent' # fileContent \/ calls' # calls) =>
    /\ pc = "gather"
    /\ \A i \in DOMAIN taskDone : taskDone[i]
    /\ BagOf(results) = BagOf(PageRecords(news_items, current_page, keywords))
    /\ lastBatch' = results
    /\ WrittenRecords' = WrittenRecords \o results

\* C15: under every order in which the item tasks of page N finish, the
\* save of page N starts only after all of them are over, and the batch it
\* writes holds exactly one record per matching item of page N: none lost,
\* none twice, none of another page.
C15_FanOutFanIn == []C15_WhileGathering /\ [][C15_SaveStep]_vars

\* C15 witness: page 2 had two matching items, both tasks are over and the
\* batch of two records of page 2 was written after page 1's
C15_Witness ==
  /\ pc \in {"done", "paginate"}
  /\ current_page = 2
  /\ Len(lastBatch) = 2
  /\ \A r \in Range(lastBatch) : r.page = 2
  /\ Len(WrittenRecords) = 3



\* C16: after each non-empty batch is handed to the store and written, the
\* in-memory batch is empty; the records in the file are the records of the
\* batches handed over, each once and in order, and between pages they are
\* exactly the matched records of the pages processed; the in-memory batch
\* is empty when the run ends.
C16_OwnershipTransfer ==
  /\ WrittenRecords = batches
  /\ pc \in {"loop", "paginate", "click", "done", "exit"} =>
       /\ results = <<>>
       /\ BagOf(batches) = expected
  /\ pc = "exit" => (results = <<>> /\ exitStatus = "ok")

\* C16 witness: the run has ended after two non-empty batches were written
C16_Witness ==
  /\ pc = "exit"
  /\ calls = 2
  /\ Len(batchLog) = 2
  /\ Len(WrittenRecords) >= 2
  /\ results = <<>>



\* the step that ends a page whose batch is empty
C17_EmptyPageStep ==
  (pc = "gather" /\ pc' # "gather" /\ results = <<>>) =>
    /\ UNCHANGED <<results, hasFilename, filename, fileExists, fileContent>>
    /\ UNCHANGED <<calls, lastBatch, batches, batchLog>>
    /\ processed' = processed + 1
    /\ exitStatus' = "running"
    /\ pc' = IF current_page < max_pages THEN "paginate" ELSE "done"

\* C17: a page without a match triggers no write and does not stop the
\* run: the document, or its absence, is unchanged and the run goes on to
\* the pagination exactly as after a page with matches, so that a later
\* page with matches is still fetched and persisted.
C17_EmptyBatchGoesOn == [][C17_EmptyPageStep]_vars

\* C17 witness: page 1 had no match, page 2 was fetched and its batch is
\* the only one in the document
C17_Witness ==
  /\ pc = "exit"
  /\ processed = 2
  /\ calls = 1
  /\ fileExists
  /\ WrittenRecords # <<>>
  /\ \A r \in Range(WrittenRecords) : r.page = 2



\* the JSON value of an array with one sub-array per batch of log
C18_Nested(log) ==
  Arr([i \in DOMAIN log |-> Arr([j \in DOMAIN log[i] |-> Obj(log[i][j])])])

\* C18: before the cleanup the file, once it exists, is a JSON array of
\* arrays with exactly one sub-array per non-empty batch appended, in append
\* order: after k non-empty saves the outer array has k elements and the
\* i-th element is the i-th non-empty batch; no file exists before the
\* first of them.
C18_ArrayOfArrays ==
  pc = "store" =>
    /\ fileExists <=> batchLog # <<>>
    /\ fileExists =>
         /\ Doc.ok
         /\ Doc.val = C18_Nested(batchLog)
         /\ Len(Doc.val.items) = Len(batchLog)
         /\ \A i \in DOMAIN batchLog :
              Len(Doc.val.items[i].items) = Len(batchLog[i])

\* C18 witness: three saves, one of them empty, left an outer array of two
\* sub-arrays, the first with two records
C18_Witness ==
  /\ pc = "store"
  /\ calls = 3
  /\ Len(batchLog) = 2
  /\ Len(batchLog[1]) = 2
  /\ Doc.ok
  /\ Len(Doc.val.items) = 2



\* the file and its name exist from the first non-empty save on
C19_Lazy ==
  /\ hasFilename <=> filename # 0
  /\ hasFilename <=> batchLog # <<>>
  /\ fileExists <=> hasFilename

\* a step keeps the name once it is set, and sets it only in the first
\* save of a non-empty batch, which also creates the file
C19_NameStep ==
  /\ filename # 0 => filename' = filename
  /\ (filename = 0 /\ filename' # 0) =>
       /\ batchLog = <<>>
       /\ Len(batchLog') = 1
       /\ ~fileExists
       /\ fileExists'
  /\ fileExists => fileExists'

\* C19: one document per run: the file name is chosen at the first
\* non-empty save and never changes afterwards, so every later append and
\* the cleanup work on that same file; the file is created lazily and does
\* not exist before the first non-empty batch.
C19_OneDocument == []C19_Lazy /\ [][C19_NameStep]_vars

\* C19 witness: the first save was empty, the name was chosen at the second
\* call, a third call appended and the cleanup ran, all under that name
C19_Witness ==
  /\ pc = "finalized"
  /\ calls = 3
  /\ Len(batchLog) = 2
  /\ filename = 2
  /\ fileExists



\* the cleanup applied to the present store changes nothing, also when
\* applied twice, and after the cleanup the file still has one sub-array
\* per non-empty batch
C20_NoOp ==
  /\ pc \in {"store", "finalized"} =>
       /\ ReplaceCommaClose(fileContent) = fileContent
       /\ finalize(Store) = Store
       /\ finalize(finalize(Store)) = finalize(Store)
  /\ (pc = "finalized" /\ fileExists) =>
       /\ Doc.ok
       /\ Doc.val = C18_Nested(batchLog)

\* the cleanup step itself leaves the file as the last save left it
C20_CleanupStep ==
  (pc = "store" /\ pc' = "finalized") =>
    /\ fileContent' = fileContent
    /\ fileExists' = fileExists
    /\ UNCHANGED <<results, hasFilename, filename>>

\* C20: the cleanup (replace ',\n]' by '\n]') leaves the content of every
\* document produced by any sequence of saves unchanged; it is idempotent,
\* and the cleaned-up document has the nesting it had after the last save.
C20_FinalizeChangesNothing == []C20_NoOp /\ [][C20_CleanupStep]_vars

\* C20 witness: the cleanup ran on a document of two sub-arrays
C20_Witness ==
  /\ pc = "finalized"
  /\ Len(batchLog) = 2
  /\ Doc.ok
  /\ Len(Doc.val.items) = 2
  /\ Len(fileContent) > 8


=============================================================================
